---- MODULE Spec2Model ----
(***************************************************************************)
(* A model of the voxel world of src/src/block.rs: the block catalog       *)
(* (Block::configuration), the world built by World::new and the           *)
(* face-culling draw traversal Cube::draw_world.                           *)
(*                                                                         *)
(* draw_world takes the world as an input.  The source fixes one geometry  *)
(* (4x4 chunks of 4x4x8 blocks); the model runs the same loops over a few  *)
(* small geometries and over worlds that differ from a per-chunk fill in   *)
(* at most MaxEdits cells.                                                 *)
(*                                                                         *)
(* `z - 1`, `x - 1` and `y - 1` are computed on usize.  At coordinate 0    *)
(* the subtraction overflows: a build with overflow checks (the dev        *)
(* profile) panics there, a build without them (the release profile)       *)
(* wraps.  The repository holds no build manifest, so the profile is an    *)
(* input of the model: overflow_checks.                                    *)
(*                                                                         *)
(* Cube::create_atlas (SpecAtlas) and the start-up, frame loop and         *)
(* shutdown of main (SpecApp) are specifications of their own over the     *)
(* variables atlas and sys; each specification leaves the variables of the *)
(* others at rest.                                                         *)
(***************************************************************************)
EXTENDS Integers, Sequences, FiniteSets, TLC

\* overflow_checks  the build panics on integer overflow (block.rs:475, 500, 527)
\* geometry         the size constants (block.rs:7-11)
\* world            the &World draw_world is given (block.rs:13-36)
\* pc               draw_world's control: "ready" before the call, "drawing"
\*                  in the loops, "ok" after `Ok(())`, "panic" after a panic
\* cursor           row_index, column_index, x, z, y (block.rs:425-429)
\* configuration    the `configuration` of the block in hand (block.rs:436)
\* draws            the gl::DrawArrays calls issued so far (block.rs:460-548)
\* atlas            create_atlas: the image, the texture's layers, the loop
\*                  variables row and column, the TexSubImage3D calls
\*                  (block.rs:357-422)
\* sys              main: the inputs of start-up, the GPU objects, the event
\*                  loop and the frames (main.rs:15-79, app.rs, block.rs)
VARIABLES overflow_checks, geometry, world, pc, cursor, configuration, draws,
          atlas, sys

drawVars ==
    <<overflow_checks, geometry, world, pc, cursor, configuration, draws>>

vars == <<drawVars, atlas, sys>>

\* The most cells of an input world that differ from their chunk's fill.
MaxEdits == 3

(***************************************************************************)
(* Tiles and block configurations                                          *)
(***************************************************************************)

\* enum Tile: the discriminants, counted on from the last explicit one.
Tile_wide ==
    [Air |-> -1, Gravel |-> 0, DirtSnowSide |-> 1, Grass |-> 2,
     DirtGrassSide |-> 3, Cobblestone |-> 26, Bedrock |-> 32, Dirt |-> 50,
     OakPlanks |-> 53, TntSide |-> 262, TntTop |-> 263, TntBottom |-> 264,
     Rose |-> 268, Thistle |-> 269]

Tile ==
    [Air |-> -1, Gravel |-> 0, DirtSnowSide |-> 1, Grass |-> 2,
     DirtGrassSide |-> 3, Cobblestone |-> 26, Bedrock |-> 32, Dirt |-> 50,
     OakPlanks |-> 53, TntSide |-> 62, TntTop |-> 63, TntBottom |-> 64,
     Rose |-> 68, Thistle |-> 69]

\* enum Block
Block ==
    {"Air", "Gravel", "Grass", "DirtWithGrass", "Dirt", "Cobblestone", "Tnt",
     "Bedrock", "OakPlanks", "Rose", "Thistle"}

\* impl Default for Block
Block_default == "Dirt"

\* #[derive(Default)] on BlockConfiguration: every i32 is 0, every bool false.
BlockConfiguration_default ==
    [left |-> 0, right |-> 0, front |-> 0, back |-> 0, top |-> 0, bottom |-> 0,
     is_entity |-> FALSE, is_solid |-> FALSE]

\* BlockConfiguration::empty
BlockConfiguration_empty ==
    [left |-> Tile.Air, right |-> Tile.Air, front |-> Tile.Air,
     back |-> Tile.Air, top |-> Tile.Air, bottom |-> Tile.Air,
     is_entity |-> FALSE, is_solid |-> FALSE]

\* BlockConfiguration::new_single
new_single(id) ==
    [left |-> id, right |-> id, front |-> id, back |-> id, top |-> id,
     bottom |-> id, is_entity |-> FALSE, is_solid |-> TRUE]

\* BlockConfiguration::new_same_sides
new_same_sides(sides, top, bottom) ==
    [left |-> sides, right |-> sides, front |-> sides, back |-> sides,
     top |-> top, bottom |-> bottom, is_entity |-> FALSE, is_solid |-> TRUE]

\* A new_entity that starts from a cube configuration and forgets to clear
\* is_solid.
new_entity_solid(tile) ==
    [new_single(0) EXCEPT !.front = tile, !.is_entity = TRUE]

\* BlockConfiguration::new_entity
new_entity(tile) ==
    [BlockConfiguration_default EXCEPT
        !.front = tile, !.is_entity = TRUE, !.is_solid = FALSE]

\* Block::configuration
Block_configuration(block) ==
    CASE block = "Air" -> BlockConfiguration_default
      [] block = "Gravel" -> new_single(Tile.Gravel)
      [] block = "Grass" -> new_single(Tile.Grass)
      [] block = "Dirt" -> new_single(Tile.Dirt)
      [] block = "DirtWithGrass" ->
            new_same_sides(Tile.DirtGrassSide, Tile.Grass, Tile.Dirt)
      [] block = "Cobblestone" -> new_single(Tile.Cobblestone)
      [] block = "Tnt" ->
            new_same_sides(Tile.TntSide, Tile.TntTop, Tile.TntBottom)
      [] block = "Bedrock" -> new_single(Tile.Bedrock)
      [] block = "OakPlanks" -> new_single(Tile.OakPlanks)
      [] block = "Rose" -> new_entity(Tile.Rose)
      [] block = "Thistle" -> new_entity(Tile.Thistle)
      [] OTHER -> BlockConfiguration_default

\* The six face-tile fields of a configuration.
FaceFields(c) == {c.left, c.right, c.front, c.back, c.top, c.bottom}

(***************************************************************************)
(* The atlas                                                               *)
(***************************************************************************)

\* create_atlas: `let dimension = 16;`
dimension == 16

\* create_atlas: number_of_tiles = rows * columns of an image of the given
\* width and height.
number_of_tiles(width, height) ==
    (height \div dimension) * (width \div dimension)

\* The most whole tiles along one side of an input image (the 256x256 image
\* of the specification is an input besides).
MaxTilesPerSide == 3

\* The side lengths of the input images: whole tiles, and whole tiles and a
\* rest of 7 pixels.
ImageSides ==
    {dimension * k + r : k \in 0..MaxTilesPerSide, r \in {0, 7}} \ {0}

\* The images create_atlas is run on.
Images ==
    {[width |-> w, height |-> h] : w \in ImageSides, h \in ImageSides}
        \cup {[width |-> 256, height |-> 256]}

\* Before create_atlas is called.
AtlasIdle ==
    [phase |-> "idle", opens |-> FALSE,
     image |-> [width |-> 0, height |-> 0],
     layers |-> 0, row |-> 0, column |-> 0, uploads |-> <<>>]

\* Before main runs.
SysIdle == [pc |-> "idle"]

\* create_atlas: `let columns = atlas_image.width() / dimension;` and rows.
atlas_columns == atlas.image.width \div dimension
atlas_rows == atlas.image.height \div dimension

\* The layer computed with the rows for the columns.
tile_index_by_rows(row, column) == (row * atlas_rows) + column

\* create_atlas: `let tile = (row * columns) + column;`
tile_index(row, column) == (row * atlas_columns) + column

(***************************************************************************)
(* The world                                                               *)
(***************************************************************************)

\* The geometries the traversal is run on: the five size constants of
\* block.rs, lines 7-11, scaled down.  One chunk of 2x2x1 and one of 2x2x2,
\* two chunks side by side, two chunks in two rows, and a 2x2 grid of
\* one-cell chunks.
Geometries ==
    { [WORLD_LENGTH |-> 1, WORLD_WIDTH |-> 1,
       CHUNK_WIDTH |-> 2, CHUNK_LENGTH |-> 2, CHUNK_DEPTH |-> 1],
      [WORLD_LENGTH |-> 1, WORLD_WIDTH |-> 1,
       CHUNK_WIDTH |-> 2, CHUNK_LENGTH |-> 2, CHUNK_DEPTH |-> 2],
      [WORLD_LENGTH |-> 1, WORLD_WIDTH |-> 2,
       CHUNK_WIDTH |-> 2, CHUNK_LENGTH |-> 1, CHUNK_DEPTH |-> 1],
      [WORLD_LENGTH |-> 2, WORLD_WIDTH |-> 1,
       CHUNK_WIDTH |-> 1, CHUNK_LENGTH |-> 1, CHUNK_DEPTH |-> 2],
      [WORLD_LENGTH |-> 2, WORLD_WIDTH |-> 2,
       CHUNK_WIDTH |-> 1, CHUNK_LENGTH |-> 1, CHUNK_DEPTH |-> 1] }

CHUNK_WIDTH == geometry.CHUNK_WIDTH
CHUNK_LENGTH == geometry.CHUNK_LENGTH
CHUNK_DEPTH == geometry.CHUNK_DEPTH
WORLD_WIDTH == geometry.WORLD_WIDTH
WORLD_LENGTH == geometry.WORLD_LENGTH

\* impl Default for Chunk
Chunk_default ==
    [position |-> <<0, 0, 0>>,
     blocks |-> [x \in 0..(CHUNK_WIDTH - 1) |->
                   [z \in 0..(CHUNK_LENGTH - 1) |->
                      [y \in 0..(CHUNK_DEPTH - 1) |-> Block_default]]]]

\* World::new with the row and the column of the position taken for one
\* another.
World_new_transposed ==
    [chunks |->
        [y \in 0..(WORLD_LENGTH - 1) |->
            [x \in 0..(WORLD_WIDTH - 1) |->
                [Chunk_default EXCEPT
                    !.position = <<y * CHUNK_WIDTH, x * CHUNK_LENGTH, 0>>]]]]

\* World::new: chunks[y][x] is the default chunk moved to
\* (x * CHUNK_WIDTH, y * CHUNK_LENGTH, 0).
World_new ==
    [chunks |->
        [y \in 0..(WORLD_LENGTH - 1) |->
            [x \in 0..(WORLD_WIDTH - 1) |->
                [Chunk_default EXCEPT
                    !.position = <<x * CHUNK_WIDTH, y * CHUNK_LENGTH, 0>>]]]]

\* The cells of the world: chunk (row_index, column_index), local (x, z, y).
Cells ==
    [row_index : 0..(WORLD_LENGTH - 1), column_index : 0..(WORLD_WIDTH - 1),
     x : 0..(CHUNK_WIDTH - 1), z : 0..(CHUNK_LENGTH - 1),
     y : 0..(CHUNK_DEPTH - 1)]

ChunkIds == (0..(WORLD_LENGTH - 1)) \X (0..(WORLD_WIDTH - 1))

\* The kinds a whole chunk is filled with, and the kinds of the edited cells.
FillKinds == {"Air", "Dirt", "Rose"}
EditKinds == {"Air", "Dirt", "Tnt", "Thistle"}

\* The world World::new builds, with the blocks replaced by `kind`.
WorldWith(kind) ==
    [chunks |->
        [r \in 0..(WORLD_LENGTH - 1) |->
            [c \in 0..(WORLD_WIDTH - 1) |->
                [World_new.chunks[r][c] EXCEPT
                    !.blocks =
                        [x \in 0..(CHUNK_WIDTH - 1) |->
                           [z \in 0..(CHUNK_LENGTH - 1) |->
                              [y \in 0..(CHUNK_DEPTH - 1) |->
                                 kind[[row_index |-> r, column_index |-> c,
                                       x |-> x, z |-> z, y |-> y]]]]]]]]]

\* chunk.blocks[x][z][y] of the cell c.
BlockAt(c) == world.chunks[c.row_index][c.column_index].blocks[c.x][c.z][c.y]

(***************************************************************************)
(* Cube::draw_world                                                        *)
(***************************************************************************)

\* usize subtraction: the difference, or the overflow and the wrapped value
\* (any value that large is past the end of every array here).
usize_sub(a, b) ==
    [overflow |-> a < b,
     value |-> IF a >= b THEN a - b ELSE 2147483647 - (b - a) + 1]

\* slice::get on an array of `len` elements: Some iff the index is in it.
get(len, i) == i < len

\* `if Block::Air == *block`
IsAirNever(block) == FALSE

IsAir(block) == block = "Air"

\* The faces in the order draw_world tests them.
FACES == <<"back", "front", "left", "right", "bottom", "top">>

\* The first vertex of each face in VERTICES (DrawArrays' second argument).
FirstVertex ==
    [back |-> 0, front |-> 6, left |-> 12, right |-> 18, bottom |-> 24,
     top |-> 30]

\* The index draw_world computes for the neighbour of (x, z, y) across `face`
\* and the length of the array it is looked up in.
NeighborIndex(face, x, z, y) ==
    CASE face = "back" -> [index |-> usize_sub(z, 1), len |-> CHUNK_LENGTH]
      [] face = "front" ->
            [index |-> [overflow |-> FALSE, value |-> z + 1],
             len |-> CHUNK_LENGTH]
      [] face = "left" -> [index |-> usize_sub(x, 1), len |-> CHUNK_WIDTH]
      [] face = "right" ->
            [index |-> [overflow |-> FALSE, value |-> x + 1],
             len |-> CHUNK_WIDTH]
      [] face = "bottom" -> [index |-> usize_sub(y, 1), len |-> CHUNK_DEPTH]
      [] face = "top" ->
            [index |-> [overflow |-> FALSE, value |-> y + 1],
             len |-> CHUNK_DEPTH]

\* The neighbour block the lookup yields when it is Some.
NeighborBlock(chunk, face, x, z, y, i) ==
    CASE face \in {"back", "front"} -> chunk.blocks[x][i][y]
      [] face \in {"left", "right"} -> chunk.blocks[i][z][y]
      [] face \in {"bottom", "top"} -> chunk.blocks[x][z][i]

\* should_render with the solidity test dropped.
should_render_always(chunk, face, x, z, y) == TRUE

\* should_render of one face: the neighbour is not solid, or there is none.
should_render(chunk, face, x, z, y) ==
    LET n == NeighborIndex(face, x, z, y) IN
    IF get(n.len, n.index.value)
    THEN ~Block_configuration(
              NeighborBlock(chunk, face, x, z, y, n.index.value)).is_solid
    ELSE TRUE

\* A draw call: the cell it is issued for, DrawArrays' range, the blockId
\* uniform in force and the transforms applied after the cell's translation.
DrawCall(c, first, blockId, transform) ==
    [row_index |-> c.row_index, column_index |-> c.column_index,
     x |-> c.x, z |-> c.z, y |-> c.y,
     first |-> first, count |-> 6, blockId |-> blockId,
     transform |-> transform]

\* The tile of a face in a configuration.
FaceTile(config, face) ==
    CASE face = "back" -> config.back
      [] face = "front" -> config.front
      [] face = "left" -> config.left
      [] face = "right" -> config.right
      [] face = "bottom" -> config.bottom
      [] face = "top" -> config.top

\* The else branch of draw_world from face i on: the draw calls issued, and
\* whether an index computation panicked (which ends the traversal).
RECURSIVE DrawFaces(_, _, _, _)
DrawFaces(c, config, i, issued) ==
    IF i > Len(FACES) THEN [panicked |-> FALSE, draws |-> issued]
    ELSE
        LET face == FACES[i]
            chunk == world.chunks[c.row_index][c.column_index]
            n == NeighborIndex(face, c.x, c.z, c.y)
        IN  IF n.index.overflow /\ overflow_checks
            THEN [panicked |-> TRUE, draws |-> issued]
            ELSE DrawFaces(c, config, i + 1,
                    IF should_render(chunk, face, c.x, c.z, c.y)
                    THEN Append(issued,
                            DrawCall(c, FirstVertex[face],
                                     FaceTile(config, face), <<>>))
                    ELSE issued)

\* The is_entity branch of draw_world: the front quad, moved back by half a
\* cell, and the same quad turned about y and moved back again.
DrawEntityQuads(c, config) ==
    << DrawCall(c, FirstVertex.front, config.front, <<"translate(0,0,-0.5)">>),
       DrawCall(c, FirstVertex.front, config.front,
                <<"translate(0,0,-0.5)", "rotate(-90deg,y)",
                  "translate(0,0,-0.5)">>) >>

\* Where draw_world places the cell c: `glm::translate(&self.mvp,
\* &chunk.position)` and then `glm::translate(&mvp, &glm::vec3(x, y, z))`.
Translation(c) ==
    LET position == world.chunks[c.row_index][c.column_index].position IN
        <<position[1] + c.x, position[2] + c.y, position[3] + c.z>>

\* The positions of VERTICES, in halves of a cell (0.5 is 1): the cube about
\* the origin, six vertices a face, in the order back, front, left, right,
\* bottom, top.
VERTICES ==
    << <<-1, -1, -1>>, <<1, -1, -1>>, <<1, 1, -1>>,
       <<1, 1, -1>>, <<-1, 1, -1>>, <<-1, -1, -1>>,
       <<-1, -1, 1>>, <<1, -1, 1>>, <<1, 1, 1>>,
       <<1, 1, 1>>, <<-1, 1, 1>>, <<-1, -1, 1>>,
       <<-1, 1, 1>>, <<-1, 1, -1>>, <<-1, -1, -1>>,
       <<-1, -1, -1>>, <<-1, -1, 1>>, <<-1, 1, 1>>,
       <<1, 1, 1>>, <<1, 1, -1>>, <<1, -1, -1>>,
       <<1, -1, -1>>, <<1, -1, 1>>, <<1, 1, 1>>,
       <<-1, -1, -1>>, <<1, -1, -1>>, <<1, -1, 1>>,
       <<1, -1, 1>>, <<-1, -1, 1>>, <<-1, -1, -1>>,
       <<-1, 1, -1>>, <<1, 1, -1>>, <<1, 1, 1>>,
       <<1, 1, 1>>, <<-1, 1, 1>>, <<-1, 1, -1>> >>

\* One transform of a draw call applied to a point, in halves of a cell:
\* glm::translate by (0, 0, -0.5), and glm::rotate by -90 degrees about y,
\* the matrix ((0, 0, -1), (0, 1, 0), (1, 0, 0)).
Transformed(t, v) ==
    CASE t = "translate(0,0,-0.5)" -> <<v[1], v[2], v[3] - 1>>
      [] t = "rotate(-90deg,y)" -> <<0 - v[3], v[2], v[1]>>

\* The point a vertex is drawn at, relative to the centre of the cell:
\* glm::translate and glm::rotate multiply on the right, so the transform
\* composed last is applied to the vertex first.
RECURSIVE Placed(_, _)
Placed(transform, v) ==
    IF transform = <<>> THEN v
    ELSE Placed(SubSeq(transform, 1, Len(transform) - 1),
                Transformed(transform[Len(transform)], v))

\* The points of the vertices DrawArrays(TRIANGLES, first, count) draws
\* under the transforms of the draw call d, relative to the centre of d's
\* cell.
QuadPoints(d) ==
    {Placed(d.transform, VERTICES[i + 1]) :
        i \in d.first..(d.first + d.count - 1)}

\* The first cell of the loops.
FirstCell == [row_index |-> 0, column_index |-> 0, x |-> 0, z |-> 0, y |-> 0]

\* The last cell of the loops.
LastCell ==
    [row_index |-> WORLD_LENGTH - 1, column_index |-> WORLD_WIDTH - 1,
     x |-> CHUNK_WIDTH - 1, z |-> CHUNK_LENGTH - 1, y |-> CHUNK_DEPTH - 1]

\* The nested loops with z innermost and y around it.
NextCell_z_innermost(c) ==
    IF c.z + 1 < CHUNK_LENGTH THEN [c EXCEPT !.z = c.z + 1]
    ELSE IF c.y + 1 < CHUNK_DEPTH THEN [c EXCEPT !.z = 0, !.y = c.y + 1]
    ELSE IF c.x + 1 < CHUNK_WIDTH
         THEN [c EXCEPT !.y = 0, !.z = 0, !.x = c.x + 1]
    ELSE IF c.column_index + 1 < WORLD_WIDTH
         THEN [c EXCEPT !.y = 0, !.z = 0, !.x = 0,
                        !.column_index = c.column_index + 1]
    ELSE [c EXCEPT !.y = 0, !.z = 0, !.x = 0, !.column_index = 0,
                   !.row_index = c.row_index + 1]

\* The cell after c in the nested loops: rows, columns, x, z, then y
\* innermost.
NextCell(c) ==
    IF c.y + 1 < CHUNK_DEPTH THEN [c EXCEPT !.y = c.y + 1]
    ELSE IF c.z + 1 < CHUNK_LENGTH THEN [c EXCEPT !.y = 0, !.z = c.z + 1]
    ELSE IF c.x + 1 < CHUNK_WIDTH
         THEN [c EXCEPT !.y = 0, !.z = 0, !.x = c.x + 1]
    ELSE IF c.column_index + 1 < WORLD_WIDTH
         THEN [c EXCEPT !.y = 0, !.z = 0, !.x = 0,
                        !.column_index = c.column_index + 1]
    ELSE [row_index |-> c.row_index + 1, column_index |-> 0,
          x |-> 0, z |-> 0, y |-> 0]

\* The input worlds: every chunk filled with one kind, then at most MaxEdits
\* cells replaced.  The world World::new builds is the one filled with
\* Block::default and not edited.
Init ==
    /\ overflow_checks \in BOOLEAN
    /\ geometry \in Geometries
    /\ \E fill \in [ChunkIds -> FillKinds] :
       \E edited \in {S \in SUBSET Cells : Cardinality(S) <= MaxEdits} :
       \E kinds \in [edited -> EditKinds] :
          world = WorldWith([c \in Cells |->
                      IF c \in edited THEN kinds[c]
                      ELSE fill[<<c.row_index, c.column_index>>]])
    /\ pc = "ready"
    /\ cursor = FirstCell
    /\ configuration = BlockConfiguration_default
    /\ draws = <<>>
    /\ atlas = AtlasIdle
    /\ sys = SysIdle

\* draw_world is called: the loops start at the first cell.
Enter ==
    /\ pc = "ready"
    /\ pc' = "drawing"
    /\ cursor' = FirstCell
    /\ draws' = <<>>
    /\ UNCHANGED <<overflow_checks, geometry, world, configuration, atlas,
                   sys>>

\* The loops go on to the next cell, or draw_world returns Ok(()) after the
\* last one.
Advance ==
    IF cursor = LastCell
    THEN pc' = "ok" /\ cursor' = cursor
    ELSE pc' = "drawing" /\ cursor' = NextCell(cursor)

\* The block is Air: `return Ok(())`.
ReturnOnAir ==
    /\ pc = "drawing"
    /\ IsAir(BlockAt(cursor))
    /\ pc' = "ok"
    /\ UNCHANGED <<overflow_checks, geometry, world, cursor, configuration,
                   draws, atlas, sys>>

\* The block is an entity: two quads.
DrawEntity ==
    /\ pc = "drawing"
    /\ ~IsAir(BlockAt(cursor))
    /\ configuration' = Block_configuration(BlockAt(cursor))
    /\ configuration'.is_entity
    /\ draws' = draws \o DrawEntityQuads(cursor, configuration')
    /\ Advance
    /\ UNCHANGED <<overflow_checks, geometry, world, atlas, sys>>

\* The block is a cube: its faces, up to a panic.
DrawCube ==
    /\ pc = "drawing"
    /\ ~IsAir(BlockAt(cursor))
    /\ configuration' = Block_configuration(BlockAt(cursor))
    /\ ~configuration'.is_entity
    /\ LET r == DrawFaces(cursor, configuration', 1, <<>>) IN
          /\ draws' = draws \o r.draws
          /\ IF r.panicked
             THEN pc' = "panic" /\ cursor' = cursor
             ELSE Advance
    /\ UNCHANGED <<overflow_checks, geometry, world, atlas, sys>>

Next == Enter \/ ReturnOnAir \/ DrawEntity \/ DrawCube

Spec == Init /\ [][Next]_vars

(***************************************************************************)
(* Cube::create_atlas                                                      *)
(***************************************************************************)

\* draw_world is not running: the world as World::new builds it, nothing
\* drawn.
DrawIdle ==
    /\ overflow_checks = FALSE
    /\ geometry = [WORLD_LENGTH |-> 1, WORLD_WIDTH |-> 1,
                   CHUNK_WIDTH |-> 2, CHUNK_LENGTH |-> 2, CHUNK_DEPTH |-> 1]
    /\ world = World_new
    /\ pc = "ready"
    /\ cursor = FirstCell
    /\ configuration = BlockConfiguration_default
    /\ draws = <<>>

\* create_atlas is called, on a file image::open cannot open or decode, or on
\* an image.
InitAtlas ==
    /\ DrawIdle
    /\ sys = SysIdle
    /\ \/ atlas = [AtlasIdle EXCEPT !.phase = "called"]
       \/ \E image \in Images :
             atlas = [AtlasIdle EXCEPT !.phase = "called", !.opens = TRUE,
                                       !.image = image]

\* `image::open("assets/textures/atlas.png")?` returns the error.
OpenImageFails ==
    /\ atlas.phase = "called"
    /\ ~atlas.opens
    /\ atlas' = [atlas EXCEPT !.phase = "err"]
    /\ UNCHANGED <<drawVars, sys>>

\* The image opens; gl::TexImage3D allocates number_of_tiles layers of
\* dimension x dimension, and the loops start.
TexImage3D ==
    /\ atlas.phase = "called"
    /\ atlas.opens
    /\ atlas' = [atlas EXCEPT
                   !.phase = "slicing",
                   !.layers = number_of_tiles(atlas.image.width,
                                              atlas.image.height),
                   !.row = 0,
                   !.column = 0]
    /\ UNCHANGED <<drawVars, sys>>

\* One pass of the inner loop: the view at (x, y) goes to the layer `tile`.
TexSubImage3D ==
    /\ atlas.phase = "slicing"
    /\ atlas.row < atlas_rows
    /\ atlas.column < atlas_columns
    /\ LET y == atlas.row * dimension
           x == atlas.column * dimension
           tile == tile_index(atlas.row, atlas.column)
           last == atlas.column + 1 = atlas_columns
       IN  atlas' = [atlas EXCEPT
                       !.uploads = Append(@, [zoffset |-> tile,
                                              x |-> x, y |-> y,
                                              width |-> dimension,
                                              height |-> dimension]),
                       !.column = IF last THEN 0 ELSE @ + 1,
                       !.row = IF last THEN @ + 1 ELSE @]
    /\ UNCHANGED <<drawVars, sys>>

\* The loops have ended: mipmaps, the two filters, `Ok(atlas)`.
GenerateMipmap ==
    /\ atlas.phase = "slicing"
    /\ atlas.row >= atlas_rows \/ atlas_columns = 0
    /\ atlas' = [atlas EXCEPT !.phase = "ok"]
    /\ UNCHANGED <<drawVars, sys>>

NextAtlas == OpenImageFails \/ TexImage3D \/ TexSubImage3D \/ GenerateMipmap

SpecAtlas == InitAtlas /\ [][NextAtlas]_vars

(***************************************************************************)
(* main: start-up, the event loop, shutdown                                *)
(*                                                                         *)
(* main builds the renderer (`App::new(..)?`, main.rs:28), hands the event *)
(* loop a callback that runs one frame per MainEventsCleared and logs the  *)
(* error of a frame, and releases the renderer's GPU objects in the        *)
(* LoopDestroyed branch.  The renderer is the App of app.rs or the Cube of *)
(* block.rs, whose constructors share create_shader_program, load_shader   *)
(* and check_compilation word for word.                                    *)
(***************************************************************************)

\* The event-loop callbacks one run goes through at most.
MaxEvents == 4

\* The renderers main is run with.
Renderers == {"App", "Cube"}

\* A shader source file: not there, compiling, failing to compile with an
\* info log that is UTF-8, failing with an info log that is not.
ShaderFiles == {"missing", "compiles", "fails", "fails_log_not_utf8"}

\* The GPU objects the constructors create.
Objects ==
    {"vao", "vbo", "ebo", "vertex_shader", "fragment_shader",
     "shader_program", "atlas"}

\* check_compilation: Ok(()) at once when COMPILE_STATUS is true; else the
\* info log is read, `std::str::from_utf8(&info_log)?` returns the error of
\* a log that is not UTF-8 before anything is printed, and a UTF-8 log is
\* printed with eprintln! and Ok(()) returned.
check_compilation(file) ==
    CASE file = "compiles" -> [result |-> "Ok", logged |-> FALSE]
      [] file = "fails" -> [result |-> "Ok", logged |-> TRUE]
      [] file = "fails_log_not_utf8" -> [result |-> "Err", logged |-> FALSE]

\* load_shader going on without the file.
load_shader_without_file(file) ==
    IF file = "missing"
    THEN [result |-> "Ok", created |-> TRUE, logged |-> FALSE]
    ELSE [result |-> check_compilation(file).result, created |-> TRUE,
          logged |-> check_compilation(file).logged]

\* load_shader: `fs::read_to_string(path)?` returns the error of a missing
\* file; else the shader is created and compiled and
\* `Self::check_compilation(shader)?` passes an error on.
load_shader(file) ==
    IF file = "missing"
    THEN [result |-> "Err", created |-> FALSE, logged |-> FALSE]
    ELSE [result |-> check_compilation(file).result, created |-> TRUE,
          logged |-> check_compilation(file).logged]

\* App::cleanup deleting the vertex buffer twice and the element buffer
\* never.
App_cleanup_vbo_twice == <<"vbo", "vbo", "shader_program">>

\* App::cleanup: the objects it deletes, in order.
App_cleanup == <<"vbo", "ebo", "shader_program">>

\* impl Drop for Cube: the objects drop deletes, in order.
Cube_drop == <<"vbo", "shader_program", "atlas">>

\* The owner of the Cube is not among the source files: as the
\* specification has it, the Cube is built once at start-up and dropped at
\* shutdown, as main does with its App.
CubeOwner == [builds |-> "main", drops |-> "LoopDestroyed"]

\* What the LoopDestroyed branch releases: `app.cleanup()`, and the Cube
\* its owner drops.
Released(renderer) ==
    CASE renderer = "App" -> App_cleanup
      [] renderer = "Cube" /\ CubeOwner.drops = "LoopDestroyed" -> Cube_drop

\* The steps of the constructor, in the order of the struct expression.
Steps(renderer) ==
    IF renderer = "App"
    THEN <<"create_vao", "create_vbo", "create_ebo", "vertex_shader",
           "fragment_shader", "link">>
    ELSE <<"create_vao", "create_vbo", "vertex_shader", "fragment_shader",
           "link", "create_atlas">>

\* The step after `step`, or "constructed" after the last: `Ok(Self {..})`.
StepAfter(renderer, step) ==
    LET steps == Steps(renderer)
        i == CHOOSE k \in 1..Len(steps) : steps[k] = step
    IN  IF i = Len(steps) THEN "constructed" ELSE steps[i + 1]

\* The per-frame operations of the MainEventsCleared branch, in order.
FrameOperations == <<"handle_events", "update", "render", "swap_buffers">>

\* The callback stopping the loop on the error of a frame.
on_frame_error_exit(control_flow) ==
    [control_flow |-> "Exit", app_errors |-> 1]

\* `if let Err(error) = result() { eprintln!("Application Error: ..") }`:
\* the error is printed and the callback returns.
on_frame_error(control_flow) ==
    [control_flow |-> control_flow, app_errors |-> 1]

\* main is called with a renderer, its two shader files and, for the Cube,
\* its atlas image.
InitApp ==
    /\ DrawIdle
    /\ atlas = AtlasIdle
    /\ \E renderer \in Renderers :
       \E vertex_source \in ShaderFiles :
       \E fragment_source \in ShaderFiles :
       \E image_opens \in IF renderer = "Cube" THEN BOOLEAN ELSE {TRUE} :
          sys = [pc |-> "create_vao",
                 renderer |-> renderer,
                 vertex_source |-> vertex_source,
                 fragment_source |-> fragment_source,
                 image_opens |-> image_opens,
                 created |-> [o \in Objects |-> 0],
                 deleted |-> [o \in Objects |-> 0],
                 compile_errors |-> 0,
                 app_errors |-> 0,
                 control_flow |-> "Poll",
                 events |-> 0,
                 rendered |-> 0,
                 frames |-> 0,
                 last |-> "none"]

\* create_vao
CreateVao ==
    /\ sys.pc = "create_vao"
    /\ sys' = [sys EXCEPT !.created["vao"] = @ + 1,
                          !.pc = StepAfter(sys.renderer, "create_vao")]
    /\ UNCHANGED <<drawVars, atlas>>

\* create_vbo
CreateVbo ==
    /\ sys.pc = "create_vbo"
    /\ sys' = [sys EXCEPT !.created["vbo"] = @ + 1,
                          !.pc = StepAfter(sys.renderer, "create_vbo")]
    /\ UNCHANGED <<drawVars, atlas>>

\* App::create_ebo
CreateEbo ==
    /\ sys.pc = "create_ebo"
    /\ sys' = [sys EXCEPT !.created["ebo"] = @ + 1,
                          !.pc = StepAfter(sys.renderer, "create_ebo")]
    /\ UNCHANGED <<drawVars, atlas>>

\* create_shader_program: one `Self::load_shader(..)?`.  An error goes up
\* through create_shader_program, the constructor and main.
LoadShader ==
    /\ sys.pc \in {"vertex_shader", "fragment_shader"}
    /\ LET file == IF sys.pc = "vertex_shader" THEN sys.vertex_source
                   ELSE sys.fragment_source
           r == load_shader(file)
       IN  sys' = [sys EXCEPT
                     !.created[sys.pc] = IF r.created THEN @ + 1 ELSE @,
                     !.compile_errors = IF r.logged THEN @ + 1 ELSE @,
                     !.pc = IF r.result = "Ok"
                            THEN StepAfter(sys.renderer, sys.pc)
                            ELSE "main_err"]
    /\ UNCHANGED <<drawVars, atlas>>

\* create_shader_program: CreateProgram, AttachShader, LinkProgram, and
\* DeleteShader of both shaders.
LinkProgram ==
    /\ sys.pc = "link"
    /\ sys' = [sys EXCEPT !.created["shader_program"] = @ + 1,
                          !.deleted["vertex_shader"] = @ + 1,
                          !.deleted["fragment_shader"] = @ + 1,
                          !.pc = StepAfter(sys.renderer, "link")]
    /\ UNCHANGED <<drawVars, atlas>>

\* Cube::new: `Self::create_atlas()?`
CreateAtlas ==
    /\ sys.pc = "create_atlas"
    /\ sys' = IF sys.image_opens
              THEN [sys EXCEPT !.created["atlas"] = @ + 1,
                               !.pc = StepAfter(sys.renderer, "create_atlas")]
              ELSE [sys EXCEPT !.pc = "main_err"]
    /\ UNCHANGED <<drawVars, atlas>>

\* `event_loop.run(move |event, _, control_flow| ..)`
Run ==
    /\ sys.pc = "constructed"
    /\ sys' = [sys EXCEPT !.pc = "running"]
    /\ UNCHANGED <<drawVars, atlas>>

\* The callback on Event::MainEventsCleared: the four operations in order,
\* up to the first that returns an error.  (The loop hands the callback the
\* events of its current turn also after ControlFlow::Exit is set, and Exit
\* stays set.)
MainEventsCleared ==
    /\ sys.pc = "running"
    /\ sys.events < MaxEvents
    /\ \E failed \in 0..Len(FrameOperations) :
          LET ran(op) ==
                 \E k \in 1..Len(FrameOperations) :
                    /\ FrameOperations[k] = op
                    /\ failed = 0 \/ k < failed
              e == IF failed = 0
                   THEN [control_flow |-> sys.control_flow, app_errors |-> 0]
                   ELSE on_frame_error(sys.control_flow)
          IN  sys' = [sys EXCEPT
                        !.events = @ + 1,
                        !.rendered = IF ran("render") THEN @ + 1 ELSE @,
                        !.frames = IF ran("swap_buffers") THEN @ + 1 ELSE @,
                        !.app_errors = @ + e.app_errors,
                        !.control_flow = e.control_flow,
                        !.last = IF failed = 0 THEN "frame"
                                 ELSE FrameOperations[failed]]
    /\ UNCHANGED <<drawVars, atlas>>

\* The callback on Event::WindowEvent: Escape pressed and CloseRequested set
\* ControlFlow::Exit.
WindowEvent ==
    /\ sys.pc = "running"
    /\ sys.events < MaxEvents
    /\ \E event \in {"Resized", "Escape", "CloseRequested", "other"} :
          sys' = [sys EXCEPT
                    !.events = @ + 1,
                    !.control_flow =
                        IF event \in {"Escape", "CloseRequested"}
                        THEN "Exit" ELSE @,
                    !.last = event]
    /\ UNCHANGED <<drawVars, atlas>>

\* The callback on Event::LoopDestroyed, the last event of a loop whose
\* control flow is Exit: the renderer's objects are released.
LoopDestroyed ==
    /\ sys.pc = "running"
    /\ sys.control_flow = "Exit"
    /\ LET released == Released(sys.renderer) IN
          sys' = [sys EXCEPT
                    !.deleted =
                        [o \in Objects |->
                           @[o] + Cardinality({i \in 1..Len(released) :
                                                  released[i] = o})],
                    !.pc = "destroyed",
                    !.last = "LoopDestroyed"]
    /\ UNCHANGED <<drawVars, atlas>>

NextApp ==
    \/ CreateVao \/ CreateVbo \/ CreateEbo \/ LoadShader \/ LinkProgram
    \/ CreateAtlas \/ Run \/ MainEventsCleared \/ WindowEvent
    \/ LoopDestroyed

SpecApp == InitApp /\ [][NextApp]_vars

(***************************************************************************)
(* What the claims speak of                                                *)
(***************************************************************************)

\* The place of a cell in the traversal order.
OrderIndex(c) ==
    ((((c.row_index * WORLD_WIDTH + c.column_index) * CHUNK_WIDTH + c.x)
        * CHUNK_LENGTH + c.z) * CHUNK_DEPTH) + c.y

\* draw_world has ended, by returning or by panicking.
Done == pc \in {"ok", "panic"}

\* The traversal got past the Air test of cell c.
Processed(c) ==
    /\ pc # "ready"
    /\ \/ OrderIndex(c) < OrderIndex(cursor)
       \/ c = cursor /\ pc = "panic"
       \/ c = cursor /\ pc = "ok" /\ BlockAt(c) # "Air"

\* The traversal visited every cell and returned.
Completed == pc = "ok" /\ cursor = LastCell /\ BlockAt(LastCell) # "Air"

\* The draw calls issued for cell c.
IsFor(d, c) ==
    /\ d.row_index = c.row_index /\ d.column_index = c.column_index
    /\ d.x = c.x /\ d.z = c.z /\ d.y = c.y

DrawsFor(c) == {i \in 1..Len(draws) : IsFor(draws[i], c)}

\* The cube face `face` of cell c has been drawn.
Drawn(c, face) ==
    \E i \in DrawsFor(c) :
        draws[i].first = FirstVertex[face] /\ draws[i].transform = <<>>

IsEntityCell(c) == Block_configuration(BlockAt(c)).is_entity

IsCubeCell(c) == BlockAt(c) # "Air" /\ ~IsEntityCell(c)

\* The local coordinates of the cell across `face` from c.
Adjacent(c, face) ==
    CASE face = "back" -> [c EXCEPT !.z = c.z - 1]
      [] face = "front" -> [c EXCEPT !.z = c.z + 1]
      [] face = "left" -> [c EXCEPT !.x = c.x - 1]
      [] face = "right" -> [c EXCEPT !.x = c.x + 1]
      [] face = "bottom" -> [c EXCEPT !.y = c.y - 1]
      [] face = "top" -> [c EXCEPT !.y = c.y + 1]

\* The cell across `face` from c lies in c's own chunk.
AdjacentInChunk(c, face) == Adjacent(c, face) \in Cells

FaceNames == {"back", "front", "left", "right", "bottom", "top"}

\* The cells of one chunk.
CellsOf(ch) == {c \in Cells : <<c.row_index, c.column_index>> = ch}

\* A solid cube block with one tile on all six faces.
IsSolidUniform(block) ==
    LET config == Block_configuration(block) IN
        /\ config.is_solid /\ ~config.is_entity
        /\ Cardinality(FaceFields(config)) = 1

\* The faces the specification's rule calls visible for a cube cell.
VisibleFaces(c) ==
    {face \in FaceNames :
        \/ ~AdjacentInChunk(c, face)
        \/ ~Block_configuration(BlockAt(Adjacent(c, face))).is_solid}

(***************************************************************************)
(* C1: an Air block ends the processing of its own cell only: when         *)
(* draw_world returns, every non-Air block that comes after an Air block   *)
(* in traversal order has been processed and its quads or visible faces    *)
(* have been drawn.  The code returns from draw_world at the first Air.    *)
(***************************************************************************)
C1_AirEndsOnlyItsCell ==
    pc = "ok" =>
        \A a \in Cells : \A c \in Cells :
            (/\ BlockAt(a) = "Air" /\ BlockAt(c) # "Air"
             /\ OrderIndex(a) < OrderIndex(c))
            => /\ Processed(c)
               /\ IsEntityCell(c) => Cardinality(DrawsFor(c)) = 2
               /\ IsCubeCell(c) =>
                     \A face \in VisibleFaces(c) : Drawn(c, face)

(***************************************************************************)
(* C2: a world of one 2x2x1 chunk with solid cubes at (0,0,0) and (1,0,0)  *)
(* and Air elsewhere: one run emits exactly 10 face draws, the shared      *)
(* right/left pair not among them.                                         *)
(***************************************************************************)
C2_Geometry ==
    [WORLD_LENGTH |-> 1, WORLD_WIDTH |-> 1,
     CHUNK_WIDTH |-> 2, CHUNK_LENGTH |-> 2, CHUNK_DEPTH |-> 1]

C2_Scenario ==
    /\ geometry = C2_Geometry
    /\ \A c \in Cells :
          BlockAt(c) = (IF c.z = 0 /\ c.y = 0 THEN "Dirt" ELSE "Air")

C2_TwoAdjacentBlocksTenFaces ==
    (C2_Scenario /\ pc = "ok") =>
        /\ Len(draws) = 10
        /\ ~Drawn([FirstCell EXCEPT !.x = 0], "right")
        /\ ~Drawn([FirstCell EXCEPT !.x = 1], "left")

(***************************************************************************)
(* C3: for every processed cube block and each face whose adjacent cell is *)
(* in the same chunk, the face is drawn iff the neighbour is not solid.    *)
(***************************************************************************)
C3_InChunkFaceIffNeighbourNotSolid ==
    Done =>
        \A c \in Cells : \A face \in FaceNames :
            (Processed(c) /\ IsCubeCell(c) /\ AdjacentInChunk(c, face))
            => (Drawn(c, face) <=>
                  ~Block_configuration(BlockAt(Adjacent(c, face))).is_solid)

\* In a build without overflow checks the rule of C3 holds of every
\* processed cube block.
C3_HoldsWithoutOverflowChecks ==
    ~overflow_checks => C3_InChunkFaceIffNeighbourNotSolid

(***************************************************************************)
(* C4: for every processed cube block, a face whose adjacent cell is       *)
(* outside the block's chunk is drawn.                                     *)
(***************************************************************************)
C4_BoundaryFaceAlwaysDrawn ==
    Done =>
        \A c \in Cells : \A face \in FaceNames :
            (Processed(c) /\ IsCubeCell(c) /\ ~AdjacentInChunk(c, face))
            => Drawn(c, face)

\* In a build without overflow checks the rule of C4 holds of every
\* processed cube block.
C4_HoldsWithoutOverflowChecks ==
    ~overflow_checks => C4_BoundaryFaceAlwaysDrawn

(***************************************************************************)
(* C5, as claimed: in a chunk of solid uniform cubes a completed traversal *)
(* has drawn no face between two cells of the chunk and all six faces of   *)
(* every cell on the chunk's boundary.                                     *)
(***************************************************************************)
AllSolidUniform(ch) == \A c \in CellsOf(ch) : IsSolidUniform(BlockAt(c))

OnBoundary(c) == \E face \in FaceNames : ~AdjacentInChunk(c, face)

C5_AllSixOnBoundary ==
    Completed =>
        \A ch \in ChunkIds : AllSolidUniform(ch) =>
            \A c \in CellsOf(ch) :
                /\ \A face \in FaceNames :
                      AdjacentInChunk(c, face) => ~Drawn(c, face)
                /\ OnBoundary(c) => \A face \in FaceNames : Drawn(c, face)

(***************************************************************************)
(* C5, amended: in a chunk of solid uniform cubes every face the traversal *)
(* draws is a face whose adjacent cell lies outside the chunk: no face     *)
(* between two cells of the chunk is drawn, and a boundary cell gets its   *)
(* outward faces only.                                                     *)
(***************************************************************************)
C5_OnlyOutwardFaces ==
    \A ch \in ChunkIds : AllSolidUniform(ch) =>
        \A c \in CellsOf(ch) : \A face \in FaceNames :
            Drawn(c, face) => ~AdjacentInChunk(c, face)

C5_Witness ==
    /\ Completed
    /\ \E ch \in ChunkIds :
          /\ AllSolidUniform(ch)
          /\ \E c \in CellsOf(ch) :
                /\ \E face \in FaceNames : Drawn(c, face)
                /\ \E face \in FaceNames :
                      AdjacentInChunk(c, face) /\ ~Drawn(c, face)

(***************************************************************************)
(* C6: a chunk whose every cell is Air gets no draw call.                  *)
(***************************************************************************)
AllAir(ch) == \A c \in CellsOf(ch) : BlockAt(c) = "Air"

C6_AirChunkDrawsNothing ==
    \A ch \in ChunkIds : AllAir(ch) =>
        \A i \in 1..Len(draws) :
            <<draws[i].row_index, draws[i].column_index>> # ch

\* The traversal drew an earlier chunk, reached an all-Air chunk and ended.
C6_Witness ==
    /\ pc = "ok"
    /\ draws # <<>>
    /\ AllAir(<<cursor.row_index, cursor.column_index>>)

(***************************************************************************)
(* C7: one run of the traversal emits exactly two quad draws for every     *)
(* entity cell, whatever the other cells hold.                             *)
(***************************************************************************)
C7_EntityAlwaysTwoQuads ==
    pc = "ok" =>
        \A c \in Cells : IsEntityCell(c) => Cardinality(DrawsFor(c)) = 2

(***************************************************************************)
(* C8: no block kind's configuration is both an entity and solid, and so   *)
(* neither is the configuration the traversal holds.                       *)
(***************************************************************************)
C8_EntityAndSolidExclusive ==
    /\ \A block \in Block :
          ~(Block_configuration(block).is_entity
            /\ Block_configuration(block).is_solid)
    /\ ~(configuration.is_entity /\ configuration.is_solid)

\* An entity's configuration has been looked up and its quads drawn.
C8_Witness ==
    /\ configuration.is_entity
    /\ pc = "ok"
    /\ Cardinality(DrawsFor(cursor)) = 2

(***************************************************************************)
(* C9: every face tile of every block kind's configuration is the sentinel *)
(* -1 or an index into the 256 layers of the 256x256 atlas cut into        *)
(* 16-pixel tiles, and so is every tile a draw call selects.               *)
(***************************************************************************)
ValidTile(t) == t = -1 \/ (0 <= t /\ t < number_of_tiles(256, 256))

C9_TileIndexInAtlas ==
    /\ number_of_tiles(256, 256) = 256
    /\ \A block \in Block :
          \A t \in FaceFields(Block_configuration(block)) : ValidTile(t)
    /\ \A i \in 1..Len(draws) : ValidTile(draws[i].blockId)

\* Draw calls have selected the largest tile index of the catalog.
C9_Witness ==
    /\ Done
    /\ \E i \in 1..Len(draws) : draws[i].blockId = Tile.Thistle

(***************************************************************************)
(* C10: the catalog maps Air, and any kind it does not list, to the empty  *)
(* configuration: six sentinel tiles, not solid, not an entity.            *)
(***************************************************************************)
C10_AirIsEmptyConfiguration ==
    /\ \A block \in Block : Block_configuration(block) \in
          [left : Int, right : Int, front : Int, back : Int, top : Int,
           bottom : Int, is_entity : BOOLEAN, is_solid : BOOLEAN]
    /\ Block_configuration("Air") = BlockConfiguration_empty
    /\ (pc = "ok" /\ BlockAt(cursor) = "Air") =>
          \A face \in FaceNames :
            FaceTile(Block_configuration(BlockAt(cursor)), face) = -1

(***************************************************************************)
(* C11: the atlas is sliced into one layer per tile                        *)
(***************************************************************************)

\* The TexSubImage3D calls made so far that write the layer.
UploadsTo(layer) ==
    {i \in 1..Len(atlas.uploads) : atlas.uploads[i].zoffset = layer}

\* The TexSubImage3D calls made so far that read the tile at (row, column).
UploadsOf(row, column) ==
    {i \in 1..Len(atlas.uploads) :
        /\ atlas.uploads[i].x = column * 16
        /\ atlas.uploads[i].y = row * 16}

\* C11: on a w x h image with tiles of d = 16 the texture has
\* (h div d) * (w div d) layers; every upload is a d x d sub-image that lies
\* in the image, at the pixel origin (column * d, row * d), and goes to the
\* layer row * columns + column; no layer is written twice, and when
\* create_atlas returns every layer 0..rows*columns-1 and every tile has been
\* uploaded exactly once.  On 256 x 256 that is 256 layers, 0..255, with
\* layer = row * 16 + column.
C11_OneLayerPerTile ==
    atlas.phase \in {"slicing", "ok"} =>
        LET w == atlas.image.width
            h == atlas.image.height
            columns == w \div 16
            rows == h \div 16
        IN  /\ atlas.layers = rows * columns
            /\ \A i \in 1..Len(atlas.uploads) :
                  LET u == atlas.uploads[i] IN
                     /\ u.width = 16 /\ u.height = 16
                     /\ u.x % 16 = 0 /\ u.y % 16 = 0
                     /\ u.x + 16 <= w /\ u.y + 16 <= h
                     /\ u.zoffset = ((u.y \div 16) * columns) + (u.x \div 16)
                     /\ u.zoffset \in 0..(atlas.layers - 1)
                     /\ Cardinality(UploadsTo(u.zoffset)) = 1
            /\ atlas.phase = "ok" =>
                  /\ \A layer \in 0..((rows * columns) - 1) :
                        Cardinality(UploadsTo(layer)) = 1
                  /\ \A row \in 0..(rows - 1) : \A column \in 0..(columns - 1) :
                        Cardinality(UploadsOf(row, column)) = 1
            /\ (w = 256 /\ h = 256) =>
                  /\ atlas.layers = 256
                  /\ atlas.phase = "ok" =>
                        {atlas.uploads[i].zoffset :
                            i \in 1..Len(atlas.uploads)} = 0..255

\* create_atlas has returned the texture of the 256 x 256 image, all of its
\* 256 tiles uploaded.
C11_Witness ==
    /\ atlas.phase = "ok"
    /\ atlas.image = [width |-> 256, height |-> 256]
    /\ Len(atlas.uploads) = 256

(***************************************************************************)
(* C12: the world World::new builds                                        *)
(***************************************************************************)

\* C12: World::new yields WORLD_LENGTH rows of WORLD_WIDTH chunks, the chunk
\* at (row, column) at the position (column * CHUNK_WIDTH,
\* row * CHUNK_LENGTH, 0), and every cell of every chunk holds the one default
\* kind, which is solid and is not Air; the world draw_world runs on has its
\* chunks at those positions.
C12_WorldAsConstructed ==
    LET w == World_new IN
       /\ DOMAIN w.chunks = 0..(WORLD_LENGTH - 1)
       /\ \A row \in DOMAIN w.chunks :
             DOMAIN w.chunks[row] = 0..(WORLD_WIDTH - 1)
       /\ Cardinality({<<row, column>> :
                          row \in DOMAIN w.chunks,
                          column \in 0..(WORLD_WIDTH - 1)})
             = WORLD_LENGTH * WORLD_WIDTH
       /\ \A row \in 0..(WORLD_LENGTH - 1) :
          \A column \in 0..(WORLD_WIDTH - 1) :
             LET chunk == w.chunks[row][column] IN
                /\ chunk.position
                      = <<column * CHUNK_WIDTH, row * CHUNK_LENGTH, 0>>
                /\ world.chunks[row][column].position = chunk.position
                /\ DOMAIN chunk.blocks = 0..(CHUNK_WIDTH - 1)
                /\ \A x \in 0..(CHUNK_WIDTH - 1) :
                      /\ DOMAIN chunk.blocks[x] = 0..(CHUNK_LENGTH - 1)
                      /\ \A z \in 0..(CHUNK_LENGTH - 1) :
                            /\ DOMAIN chunk.blocks[x][z]
                                  = 0..(CHUNK_DEPTH - 1)
                            /\ \A y \in 0..(CHUNK_DEPTH - 1) :
                                  /\ chunk.blocks[x][z][y] = "Dirt"
                                  /\ chunk.blocks[x][z][y] # "Air"
                                  /\ Block_configuration(
                                        chunk.blocks[x][z][y]).is_solid

\* draw_world has run to its end over the world as World::new builds it, two
\* chunks side by side.
C12_Witness ==
    /\ world = World_new
    /\ WORLD_WIDTH = 2
    /\ WORLD_LENGTH = 1
    /\ pc = "ok"
    /\ cursor = LastCell

(***************************************************************************)
(* C13: GPU objects are released once, at shutdown                         *)
(***************************************************************************)

\* The vertex buffer, the element buffer, the atlas texture, the shader
\* program.
GpuResources == {"vbo", "ebo", "atlas", "shader_program"}

\* C13: of the vertex buffer, the element buffer, the atlas texture and the
\* shader program created at start-up none is deleted before the loop is
\* shut down, and once it is shut down each one created has been deleted
\* exactly once: none remains allocated, none is deleted twice.
C13_ReleasedOnceAtShutdown ==
    \A o \in GpuResources :
       /\ sys.created[o] <= 1
       /\ sys.pc # "destroyed" => sys.deleted[o] = 0
       /\ sys.pc = "destroyed" =>
             /\ sys.deleted[o] = sys.created[o]
             /\ sys.deleted[o] <= 1

\* The App has drawn a frame and the loop is shut down, the App's three
\* objects created and deleted.
C13_Witness ==
    /\ sys.pc = "destroyed"
    /\ sys.renderer = "App"
    /\ sys.frames >= 1
    /\ \A o \in {"vbo", "ebo", "shader_program"} :
          sys.created[o] = 1 /\ sys.deleted[o] = 1

(***************************************************************************)
(* C14: a missing file is fatal at start-up                                *)
(***************************************************************************)

\* A shader source file, or the atlas image of the Cube, is missing.
ResourceMissing ==
    \/ sys.vertex_source = "missing"
    \/ sys.fragment_source = "missing"
    \/ sys.renderer = "Cube" /\ ~sys.image_opens

\* C14: with a shader source file or the atlas image missing the constructor
\* does not get past the step that loads it, except by main returning the
\* error: the renderer is never constructed, the event loop is never
\* entered, no callback runs and no frame is rendered.
C14_MissingResourceHaltsStartup ==
    /\ ResourceMissing =>
          /\ sys.pc \notin {"constructed", "running", "destroyed"}
          /\ sys.events = 0 /\ sys.rendered = 0 /\ sys.frames = 0
    /\ sys.vertex_source = "missing" =>
          sys.pc \in {"create_vao", "create_vbo", "create_ebo",
                      "vertex_shader", "main_err"}
    /\ sys.fragment_source = "missing" =>
          sys.pc \in {"create_vao", "create_vbo", "create_ebo",
                      "vertex_shader", "fragment_shader", "main_err"}

\* Cube::new has failed on the atlas image alone, and main has returned the
\* error.
C14_Witness ==
    /\ sys.pc = "main_err"
    /\ sys.renderer = "Cube"
    /\ ~sys.image_opens
    /\ sys.vertex_source = "compiles"
    /\ sys.fragment_source = "compiles"
    /\ sys.created["shader_program"] = 1

(***************************************************************************)
(* C15: a shader that fails to compile                                     *)
(***************************************************************************)

\* The shader source files that are there and fail to compile.
CompileFailures ==
    {s \in {"vertex_shader", "fragment_shader"} :
        (IF s = "vertex_shader" THEN sys.vertex_source
         ELSE sys.fragment_source) \in {"fails", "fails_log_not_utf8"}}

\* The constructor has loaded the shader `s`, or failed on it or before it.
PastLoad(s) ==
    sys.pc \notin
        (IF s = "vertex_shader"
         THEN {"create_vao", "create_vbo", "create_ebo", "vertex_shader"}
         ELSE {"create_vao", "create_vbo", "create_ebo", "vertex_shader",
               "fragment_shader"})

\* C15: a shader that fails to compile is logged and is not fatal: main
\* returns an error only for a missing file, and with all files there the
\* failed compilations are all logged, the program is created and linked,
\* and start-up goes on.
C15_CompileFailureNotFatal ==
    /\ sys.pc = "main_err" => ResourceMissing
    /\ (~ResourceMissing /\ \A s \in CompileFailures : PastLoad(s)) =>
          sys.compile_errors = Cardinality(CompileFailures)
    /\ (~ResourceMissing /\ sys.pc \in {"constructed", "running",
                                         "destroyed"}) =>
          sys.created["shader_program"] = 1

\* What holds of the code: the same, of the shaders whose info log is UTF-8.
C15_HoldsForUtf8Logs ==
    ("fails_log_not_utf8" \notin {sys.vertex_source, sys.fragment_source})
        => C15_CompileFailureNotFatal

(***************************************************************************)
(* C16: the error of a frame does not stop the loop                        *)
(***************************************************************************)

\* C16: a callback in which handle_events, update, render or swap_buffers
\* returns an error logs it and leaves the loop running with its control
\* flow as it was; and as long as the loop runs the next frame event can be
\* handled.
C16_FrameErrorKeepsLoopRunning ==
    /\ [][(sys.pc = "running" /\ sys'.last \in {"handle_events", "update",
                                                 "render", "swap_buffers"})
            => /\ sys'.pc = "running"
               /\ sys'.control_flow = sys.control_flow
               /\ sys'.app_errors = sys.app_errors + 1]_vars
    /\ [](sys.pc = "running" /\ sys.events < MaxEvents
            => ENABLED MainEventsCleared)

\* A whole frame has been handled after the error of an earlier one, in a
\* loop that nothing has asked to stop.
C16_Witness ==
    /\ sys.pc = "running"
    /\ sys.control_flow = "Poll"
    /\ sys.app_errors >= 1
    /\ sys.last = "frame"
    /\ sys.frames >= 1

(***************************************************************************)
(* C17: one draw call per visible face, with the face's tile and vertices  *)
(***************************************************************************)

\* The draw calls issued for cell c over the vertex range that starts at
\* `first`.
CallsOver(c, first) == {i \in DrawsFor(c) : draws[i].first = first}

\* The cube cell c has, for each visible face, exactly one draw call over
\* that face's six vertices with that face's tile, and none for any other
\* face.
OneCallPerVisibleFace(c) ==
    LET config == Block_configuration(BlockAt(c))
        tile == [back |-> config.back, front |-> config.front,
                 left |-> config.left, right |-> config.right,
                 bottom |-> config.bottom, top |-> config.top]
        range == [back |-> 0, front |-> 6, left |-> 12, right |-> 18,
                  bottom |-> 24, top |-> 30]
    IN  /\ \A face \in FaceNames :
              IF face \in VisibleFaces(c)
              THEN /\ Cardinality(CallsOver(c, range[face])) = 1
                   /\ \A i \in CallsOver(c, range[face]) :
                         /\ draws[i].blockId = tile[face]
                         /\ draws[i].count = 6
                         /\ draws[i].transform = <<>>
              ELSE CallsOver(c, range[face]) = {}
        /\ \A i \in DrawsFor(c) :
              draws[i].first \in {range[face] : face \in FaceNames}

\* C17: when draw_world has ended, every non-entity block has exactly one
\* draw call for each of its visible faces, with the tile of that same face
\* and that face's vertex range (back 0, front 6, left 12, right 18, bottom
\* 24, top 30, six vertices each), and no draw call for a face that is not
\* visible.
C17_OneCallPerVisibleFace ==
    Done => \A c \in Cells : IsCubeCell(c) => OneCallPerVisibleFace(c)

\* What holds of the code: the same of the blocks the traversal has gone
\* through, in a build without overflow checks.
C17_HoldsOfProcessedWithoutOverflowChecks ==
    ~overflow_checks =>
        \A c \in Cells :
            (IsCubeCell(c) /\ Processed(c)) => OneCallPerVisibleFace(c)

(***************************************************************************)
(* C18: the order of the draw calls                                        *)
(***************************************************************************)

\* The cell a draw call is issued for.
CellOf(d) ==
    [row_index |-> d.row_index, column_index |-> d.column_index,
     x |-> d.x, z |-> d.z, y |-> d.y]

\* The draw call d comes before the draw call e: its cell is earlier in the
\* order chunk row, chunk column, x, z, y; or it is the same cell and d's
\* face is earlier in back, front, left, right, bottom, top (whose vertex
\* ranges ascend in that order), or d is the first quad of an entity and e
\* its second.
Before(d, e) ==
    LET c == CellOf(d)
        k == CellOf(e)
        key(cell) == <<cell.row_index, cell.column_index, cell.x, cell.z,
                       cell.y>>
        less(a, b) ==
            \E n \in 1..5 :
                /\ \A m \in 1..(n - 1) : a[m] = b[m]
                /\ a[n] < b[n]
    IN  \/ less(key(c), key(k))
        \/ /\ c = k
           /\ IF d.transform = <<>> /\ e.transform = <<>>
              THEN d.first < e.first
              ELSE Len(d.transform) < Len(e.transform)

\* C18: the draw calls are issued in the order of the traversal, chunk row,
\* chunk column, x, z, y, and within one block in the order back, front,
\* left, right, bottom, top; a call once issued keeps its place, later calls
\* come after it (each call comes before the next, and the order is
\* transitive); and at every cell exactly one of the three branches of the
\* loop body can be taken, so that the world and the build fix the sequence.
C18_DrawCallsInTraversalOrder ==
    /\ [](\A i \in 1..(Len(draws) - 1) : Before(draws[i], draws[i + 1]))
    /\ [](pc = "drawing" =>
             Cardinality({b \in {"air", "entity", "cube"} :
                 \/ b = "air" /\ ENABLED ReturnOnAir
                 \/ b = "entity" /\ ENABLED DrawEntity
                 \/ b = "cube" /\ ENABLED DrawCube}) = 1)
    /\ [][/\ Len(draws') >= Len(draws)
           /\ SubSeq(draws', 1, Len(draws)) = draws]_vars

\* draw_world has gone through a world of 2x2x2 cells with a cube and an
\* entity drawn in it.
C18_Witness ==
    /\ Completed
    /\ CHUNK_WIDTH = 2 /\ CHUNK_LENGTH = 2 /\ CHUNK_DEPTH = 2
    /\ \E c \in Cells : \E k \in Cells :
          /\ IsCubeCell(c) /\ Cardinality(DrawsFor(c)) >= 3
          /\ IsEntityCell(k) /\ Cardinality(DrawsFor(k)) = 2
          /\ c.y = 1 /\ k.z = 1

(***************************************************************************)
(* C19: the two quads of an entity                                         *)
(***************************************************************************)

\* The centre of a set of points, doubled: the sum of the least and the
\* greatest coordinate on each axis.
CentreTwice(points) ==
    [axis \in 1..3 |->
        LET coords == {p[axis] : p \in points}
            least == CHOOSE m \in coords : \A n \in coords : m <= n
            greatest == CHOOSE m \in coords : \A n \in coords : m >= n
        IN  least + greatest]

\* The draw calls of entity blocks.
EntityCalls == {i \in 1..Len(draws) : draws[i].transform # <<>>}

\* C19: each of the two quads of an entity block is the front face's quad
\* placed with its centre at the centre of the cell, the first across the
\* cell in the plane z = 0 and the second, turned by 90 degrees about y, in
\* the plane x = 0: an X-shaped cross.
C19_EntityQuadsCentredOnCell ==
    \A i \in EntityCalls :
        LET points == QuadPoints(draws[i]) IN
            /\ draws[i].first = 6 /\ draws[i].count = 6
            /\ CentreTwice(points) = [axis \in 1..3 |-> 0]
            /\ \/ \A p \in points : p[3] = 0
               \/ \A p \in points : p[1] = 0

\* What holds of the code: the first quad is centred on the cell, in the
\* plane z = 0; the second lies in the plane x = 0 with its centre half a
\* cell behind the centre of the cell, reaching from z = -1 to z = 0, so
\* that the centre of the cell is on its edge.
C19_SecondQuadHalfACellBehind ==
    \A i \in EntityCalls :
        LET points == QuadPoints(draws[i]) IN
            IF Len(draws[i].transform) = 1
            THEN /\ CentreTwice(points) = [axis \in 1..3 |-> 0]
                 /\ \A p \in points : p[3] = 0
            ELSE /\ CentreTwice(points) = <<0, 0, -2>>
                 /\ \A p \in points : p[1] = 0 /\ p[3] \in {-2, 0}

(***************************************************************************)
(* C20: no two cells at one place                                          *)
(***************************************************************************)

\* C20: no two distinct cells (chunk and local x, y, z) are placed at the
\* same cell of world space: chunk.position + (x, y, z) is injective on the
\* cells draw_world has drawn.
C20_NoTwoCellsAtOnePlace ==
    \A i \in 1..Len(draws) : \A j \in 1..Len(draws) :
        LET c == CellOf(draws[i])
            k == CellOf(draws[j])
        IN  c # k => Translation(c) # Translation(k)

\* What holds of the code: cells of one chunk, and of chunks of one row,
\* are never placed at one place; cells of chunks of different rows are
\* exactly when the chunks are deeper than they are long, since the rows
\* are CHUNK_LENGTH apart along the axis the depth runs along.
C20_RowsOverlapIffDeeperThanLong ==
    /\ \A c \in Cells : \A k \in Cells :
          (c # k /\ c.row_index = k.row_index)
              => Translation(c) # Translation(k)
    /\ (\E c \in Cells : \E k \in Cells :
            c # k /\ Translation(c) = Translation(k))
          <=> (WORLD_LENGTH > 1 /\ CHUNK_DEPTH > CHUNK_LENGTH)

(***************************************************************************)
(* C21: the lower neighbour index at coordinate 0                          *)
(***************************************************************************)

\* The faces of cell c whose neighbour index is computed by subtracting 1
\* from a coordinate that is 0.
LowerFacesAtZero(c) ==
    {face \in {"back", "left", "bottom"} :
        \/ face = "back" /\ c.z = 0
        \/ face = "left" /\ c.x = 0
        \/ face = "bottom" /\ c.y = 0}

\* C21: computing z - 1, x - 1 or y - 1 at coordinate 0 never aborts the
\* traversal: draw_world does not panic, and every cube block the traversal
\* has gone through has its back face drawn if it is at z = 0, its left face
\* if at x = 0 and its bottom face if at y = 0.
C21_LowerNeighbourIndexNeverAborts ==
    /\ pc # "panic"
    /\ \A c \in Cells :
          (IsCubeCell(c) /\ Processed(c)) =>
              \A face \in LowerFacesAtZero(c) : Drawn(c, face)

\* What holds of the code: the same in a build without overflow checks,
\* where the index wraps past the end of the array; and in a build with
\* them draw_world panics at the first cube block it comes to that has a
\* coordinate 0, and only there.
C21_HoldsWithoutOverflowChecks ==
    /\ ~overflow_checks => C21_LowerNeighbourIndexNeverAborts
    /\ overflow_checks =>
          \A c \in Cells :
              (IsCubeCell(c) /\ Processed(c) /\ LowerFacesAtZero(c) # {})
                  => pc = "panic" /\ cursor = c
    /\ pc = "panic" =>
          /\ overflow_checks
          /\ IsCubeCell(cursor) /\ LowerFacesAtZero(cursor) # {}

(***************************************************************************)
(* C22: what a failed Cube::new leaves allocated                           *)
(***************************************************************************)

\* C22: when Cube::new has failed on a shader source or on the atlas image,
\* every GPU object the construction had created (vertex array, vertex
\* buffer, shader objects, shader program, atlas texture) has been
\* released: none is left allocated.
C22_FailedConstructionReleasesAll ==
    (sys.pc = "main_err" /\ sys.renderer = "Cube") =>
        \A o \in Objects : sys.deleted[o] = sys.created[o]

\* What holds of the code, of the Cube and of the App alike: a failed
\* construction has created the vertex array and the vertex buffer and
\* deleted neither; a shader created before the failure is deleted only if
\* the program was linked, which is then left allocated itself (the atlas
\* image failed).
C22_FailedConstructionLeaks ==
    sys.pc = "main_err" =>
        /\ sys.created["vao"] = 1 /\ sys.deleted["vao"] = 0
        /\ sys.created["vbo"] = 1 /\ sys.deleted["vbo"] = 0
        /\ sys.deleted["ebo"] = 0 /\ sys.deleted["atlas"] = 0
        /\ sys.deleted["shader_program"] = 0
        /\ \A s \in {"vertex_shader", "fragment_shader"} :
              sys.deleted[s] = sys.created["shader_program"]
        /\ sys.created["shader_program"] = 1 =>
              sys.renderer = "Cube" /\ ~sys.image_opens

====
